---- MODULE Spec2Model ----
(***************************************************************************)
(* Buffer pool manager, LRU replacer and extendible hash page table of     *)
(* CMU15-445-2017 (src/src/buffer, src/src/hash).                         *)
(*                                                                         *)
(* Every public operation of BufferPoolManager takes latch_ exclusively   *)
(* (std::lock_guard) for its whole body, so one call is one action.       *)
(* The program is built either with assertions compiled in or with        *)
(* NDEBUG; the variable ndebug records which build is running.            *)
(***************************************************************************)
EXTENDS Integers, Sequences, FiniteSets, TLC

\* ---------------------------------------------------------------- bounds
PoolSize == 2
MaxPages == 3
MaxByte == 1
MaxPin == 2
MaxWrites == 1
MaxCalls == 7
MaxValue == 6
NumThreads == 2
MaxCallsMT == 4
MaxValueMT == 3
KeyBits == 5
MaxBucketSize == 2
MaxCallsHash == 4
MaxSeqKey == 9
MaxKeyMT == 3

\* ------------------------------------------------------------- constants
INVALID_PAGE_ID == -1
BUCKET_SIZE == 50

\* a Page* that is nullptr
NoPage == -1

Frames == 0 .. (PoolSize - 1)
PageIds == 0 .. (MaxPages - 1)
Bytes == 0 .. MaxByte
Threads == 1 .. NumThreads

\* ------------------------------------------------------- integer helpers
RECURSIVE Pow2(_)
Pow2(n) == IF n <= 0 THEN 1 ELSE 2 * Pow2(n - 1)

Max(a, b) == IF a >= b THEN a ELSE b

\* value & LAST_N_BITS_MASK[n]
GET_LAST_N_BITS(value, n) == value % Pow2(n)

\* a mask that selects the lowest bit whatever n is
GET_LAST_N_TH_BIT_lowest(value, n) == value % 2

\* value & LAST_N_TH_BIT_MASK[n]   (mask 0 for n = 0)
GET_LAST_N_TH_BIT(value, n) ==
  IF n = 0 THEN 0
  ELSE ((value \div Pow2(n - 1)) % 2) * Pow2(n - 1)

\* ------------------------------------------------------ sequence helpers
\* std::find: first index holding x, 0 when absent
RECURSIVE FindFrom(_, _, _)
FindFrom(s, x, i) ==
  IF i > Len(s) THEN 0
  ELSE IF s[i] = x THEN i
  ELSE FindFrom(s, x, i + 1)

IndexOf(s, x) == FindFrom(s, x, 1)

\* v[i] = v.back(); v.pop_back();
SwapPop(s, i) ==
  LET n == Len(s)
  IN  [k \in 1 .. (n - 1) |-> IF k = i THEN s[n] ELSE s[k]]

\* std::list::erase of the node at position i
RemoveAt(s, i) == SubSeq(s, 1, i - 1) \o SubSeq(s, i + 1, Len(s))

Contains(s, x) == \E i \in 1 .. Len(s) : s[i] = x

\* ====================================================== extendible hash
HashKey(key) == key

NewBucket(depth) == [keys |-> <<>>, values |-> <<>>, localDepth |-> depth]

\* ExtendibleHash::ExtendibleHash. numBuckets has the in-class initialiser 1
\* and the constructor increments it.
ExtendibleHash(bsize) ==
  [bucketSize |-> bsize,
   globalDepth |-> 0,
   numBuckets |-> 2,
   size |-> 0,
   bucketAddressTable |-> <<1>>,
   buckets |-> <<NewBucket(0)>>]

\* index (into buckets) of the bucket the key lands in
GetBucket(h, key) ==
  h.bucketAddressTable[GET_LAST_N_BITS(HashKey(key), h.globalDepth) + 1]

HashFind(h, key) ==
  LET b == h.buckets[GetBucket(h, key)]
      i == IndexOf(b.keys, key)
  IN  IF i = 0 THEN [found |-> FALSE, value |-> NoPage]
      ELSE [found |-> TRUE, value |-> b.values[i]]

\* a Remove that reports success and leaves the entry in its bucket
HashRemove_keeps(h, key) == [res |-> TRUE, h |-> h]

HashRemove(h, key) ==
  LET j == GetBucket(h, key)
      b == h.buckets[j]
      i == IndexOf(b.keys, key)
  IN  IF i = 0 THEN [res |-> FALSE, h |-> h]
      ELSE [res |-> TRUE,
            h |-> [h EXCEPT !.buckets[j].keys = SwapPop(b.keys, i),
                            !.buckets[j].values = SwapPop(b.values, i)]]

\* an Exists that reports every key as stored
Exists_always(h, key, value) == [res |-> TRUE, h |-> h]

Exists(h, key, value) ==
  LET j == GetBucket(h, key)
      b == h.buckets[j]
      i == IndexOf(b.keys, key)
  IN  IF i = 0 THEN [res |-> FALSE, h |-> h]
      ELSE [res |-> TRUE, h |-> [h EXCEPT !.buckets[j].values[i] = value]]

GetSize(h) == h.size

GetGlobalDepth(h) == h.globalDepth

GetLocalDepth(h, bucket_id) ==
  h.buckets[h.bucketAddressTable[bucket_id + 1]].localDepth

GetNumBuckets(h) == h.numBuckets

\* 2.1.1.1.1 the bucket address table is appended to itself
Grow(bat) == bat \o bat

\* 2.1.3 the loop that points slots base_point, base_point + iter_incr, ...
\* at bucket z
Iterations(globalDepth, localDepth) == Max((globalDepth - localDepth) * 2, 1)

Repoint(bat, base_point, iter_incr, iterations, z) ==
  [s \in 1 .. Len(bat) |->
     IF \E it \in 0 .. (iterations - 1) : s = base_point + it * iter_incr + 1
     THEN z ELSE bat[s]]

\* 2.1.4.1 indices (0-based, descending) of the keys whose new bit is set
RECURSIVE Matches(_, _, _)
Matches(keys, depth, it) ==
  IF it < 0 THEN <<>>
  ELSE (IF GET_LAST_N_TH_BIT(HashKey(keys[it + 1]), depth) # 0
        THEN <<it>> ELSE <<>>) \o Matches(keys, depth, it - 1)

\* 2.1.4.2 without the removal from bucket j: the matches are copied
RECURSIVE Redistribute_copy(_, _, _)
Redistribute_copy(bj, bz, matches) ==
  IF matches = <<>> THEN [j |-> bj, z |-> bz]
  ELSE LET it == Head(matches) + 1
       IN  Redistribute_copy(
             bj,
             [bz EXCEPT !.keys = Append(bz.keys, bj.keys[it]),
                        !.values = Append(bz.values, bj.values[it])],
             Tail(matches))

\* 2.1.4.2 move the matches to bucket z
RECURSIVE Redistribute(_, _, _)
Redistribute(bj, bz, matches) ==
  IF matches = <<>> THEN [j |-> bj, z |-> bz]
  ELSE LET it == Head(matches) + 1
       IN  Redistribute(
             [bj EXCEPT !.keys = SwapPop(bj.keys, it),
                        !.values = SwapPop(bj.values, it)],
             [bz EXCEPT !.keys = Append(bz.keys, bj.keys[it]),
                        !.values = Append(bz.values, bj.values[it])],
             Tail(matches))

\* a test of step 2 that never finds the bucket full
Full_never(h, bucket) == FALSE

\* 2. if (keys_j.size() == bucketSize)
Full(h, bucket) == Len(bucket.keys) = h.bucketSize

\* steps 2.1 to 2.1.5 of Insert: one split of the full bucket j the key
\* lands in.  again is the condition of "goto check".
Split(h, key) ==
  LET j == GetBucket(h, key)
      bucket_j == h.buckets[j]
      last_n_bit_global == GET_LAST_N_BITS(HashKey(key), h.globalDepth)
      old_localDepth == bucket_j.localDepth
      last_n_bit_local == GET_LAST_N_BITS(last_n_bit_global, old_localDepth)
      grow == h.globalDepth = old_localDepth
      globalDepth == IF grow THEN h.globalDepth + 1 ELSE h.globalDepth
      bat0 == IF grow THEN Grow(h.bucketAddressTable)
              ELSE h.bucketAddressTable
      localDepth == old_localDepth + 1
      z == Len(h.buckets) + 1
      base_point == Pow2(old_localDepth) + last_n_bit_local
      iter_incr == Pow2(localDepth)
      iterations == Iterations(globalDepth, localDepth)
      bat1 == Repoint(bat0, base_point, iter_incr, iterations, z)
      matches == Matches(bucket_j.keys, localDepth, Len(bucket_j.keys) - 1)
      moved == Redistribute([bucket_j EXCEPT !.localDepth = localDepth],
                            NewBucket(localDepth), matches)
      to_bucket_z == GET_LAST_N_TH_BIT(HashKey(key), localDepth) # 0
  IN  [h |-> [h EXCEPT !.globalDepth = globalDepth,
                       !.numBuckets = h.numBuckets + 1,
                       !.bucketAddressTable = bat1,
                       !.buckets = Append([h.buckets EXCEPT ![j] = moved.j],
                                          moved.z)],
       j |-> j,
       z |-> z,
       localDepth |-> localDepth,
       to_bucket_z |-> to_bucket_z,
       again |-> \/ (matches = <<>> /\ ~to_bucket_z)
                 \/ Len(matches) + (IF to_bucket_z THEN 1 ELSE 0) > h.bucketSize]

\* the body of Insert from the label "check" on.  No key of the model has a
\* bit above KeyBits: once a split at a local depth above KeyBits ends in
\* "goto check", every later round finds the same full bucket, moves nothing
\* and ends the same way; the table is returned as that round leaves it and
\* Unending tells the caller that Insert does not come back.
RECURSIVE InsertCheck(_, _, _)
InsertCheck(h, key, value) ==
  LET j == GetBucket(h, key)
      bucket_j == h.buckets[j]
  IN
  IF Full(h, bucket_j) THEN
    LET s == Split(h, key)
    IN
    IF s.again
    THEN IF s.localDepth > KeyBits THEN s.h ELSE InsertCheck(s.h, key, value)
    ELSE IF s.to_bucket_z
    THEN [s.h EXCEPT !.buckets[s.z].keys = Append(@, key),
                     !.buckets[s.z].values = Append(@, value)]
    ELSE [s.h EXCEPT !.buckets[s.j].keys = Append(@, key),
                     !.buckets[s.j].values = Append(@, value)]
  ELSE
    [h EXCEPT !.buckets[j].keys = Append(@, key),
              !.buckets[j].values = Append(@, value)]

\* the loop "check: ... goto check" of Insert never ends for this key
RECURSIVE Unending(_, _)
Unending(h, key) ==
  /\ Full(h, h.buckets[GetBucket(h, key)])
  /\ LET s == Split(h, key)
     IN  s.again /\ (s.localDepth > KeyBits \/ Unending(s.h, key))

\* the assertions of Insert on the bucket the key lands in and on the
\* length of the bucket address table
InsertAsserts(h, key) ==
  LET bucket_j == h.buckets[GetBucket(h, key)]
  IN  /\ Len(bucket_j.keys) = Len(bucket_j.values)
      /\ Len(bucket_j.keys) <= h.bucketSize
      /\ Pow2(h.globalDepth) = Len(h.bucketAddressTable)

HashInsert(h, key, value) ==
  LET e == Exists(h, key, value)
  IN  IF e.res THEN e.h ELSE InsertCheck(h, key, value)

\* all keys stored in the table
HashKeys(h) ==
  UNION {{h.buckets[b].keys[i] : i \in 1 .. Len(h.buckets[b].keys)} :
           b \in 1 .. Len(h.buckets)}

\* ========================================================= LRU replacer
\* lru_list: front = most recently inserted.  ht maps a member to the list
\* node its iterator refers to; a node is identified by the value it holds.
LRUReplacer == [lru_list |-> <<>>, ht |-> <<>>]

LRUMembers(r) == DOMAIN r.ht

\* an Insert that forgets the value
LRUInsert_none(r, value) == r

\* an Insert that leaves a value already present where it is
LRUInsert_nomove(r, value) ==
  IF value \notin DOMAIN r.ht
  THEN [lru_list |-> <<value>> \o r.lru_list,
        ht |-> [x \in DOMAIN r.ht \cup {value} |->
                  IF x = value THEN value ELSE r.ht[x]]]
  ELSE r

\* an Insert that puts a value already present in front a second time
LRUInsert_again(r, value) ==
  [lru_list |-> <<value>> \o r.lru_list,
   ht |-> [x \in DOMAIN r.ht \cup {value} |->
             IF x = value THEN value ELSE r.ht[x]]]

LRUInsert(r, value) ==
  IF value \notin DOMAIN r.ht
  THEN [lru_list |-> <<value>> \o r.lru_list,
        ht |-> [x \in DOMAIN r.ht \cup {value} |->
                  IF x = value THEN value ELSE r.ht[x]]]
  ELSE LET i == IndexOf(r.lru_list, r.ht[value])
       IN  [r EXCEPT !.lru_list = <<r.lru_list[i]>> \o RemoveAt(r.lru_list, i)]

\* a Victim that takes the front (most recently inserted) of lru_list
LRUVictim_front(r) ==
  IF DOMAIN r.ht = {} THEN [res |-> FALSE, value |-> NoPage, r |-> r]
  ELSE LET value == r.lru_list[1]
       IN  [res |-> TRUE, value |-> value,
            r |-> [lru_list |-> Tail(r.lru_list),
                   ht |-> [x \in DOMAIN r.ht \ {value} |-> r.ht[x]]]]

\* a Victim that pops lru_list and leaves the entry of ht
LRUVictim_list(r) ==
  IF DOMAIN r.ht = {} THEN [res |-> FALSE, value |-> NoPage, r |-> r]
  ELSE [res |-> TRUE, value |-> r.lru_list[Len(r.lru_list)],
        r |-> [r EXCEPT !.lru_list = SubSeq(r.lru_list, 1, Len(r.lru_list) - 1)]]

LRUVictim(r) ==
  IF DOMAIN r.ht = {} THEN [res |-> FALSE, value |-> NoPage, r |-> r]
  ELSE LET value == r.lru_list[Len(r.lru_list)]
       IN  [res |-> TRUE, value |-> value,
            r |-> [lru_list |-> SubSeq(r.lru_list, 1, Len(r.lru_list) - 1),
                   ht |-> [x \in DOMAIN r.ht \ {value} |-> r.ht[x]]]]

\* an Erase that reports membership and removes nothing
LRUErase_keeps(r, value) == [res |-> value \in DOMAIN r.ht, r |-> r]

\* an Erase that reports a removal whether or not the value is a member
LRUErase_true(r, value) ==
  [res |-> TRUE,
   r |-> IF value \notin DOMAIN r.ht THEN r
         ELSE [lru_list |-> RemoveAt(r.lru_list, IndexOf(r.lru_list, r.ht[value])),
               ht |-> [x \in DOMAIN r.ht \ {value} |-> r.ht[x]]]]

LRUErase(r, value) ==
  IF value \notin DOMAIN r.ht THEN [res |-> FALSE, r |-> r]
  ELSE [res |-> TRUE,
        r |-> [lru_list |-> RemoveAt(r.lru_list, IndexOf(r.lru_list, r.ht[value])),
               ht |-> [x \in DOMAIN r.ht \ {value} |-> r.ht[x]]]]

LRUSize(r) == Cardinality(DOMAIN r.ht)

\* assert(ht.size() == lru_list.size())
LRUAssert(r) == Cardinality(DOMAIN r.ht) = Len(r.lru_list)

\* ========================================================== disk manager
\* DiskManager is an external collaborator (spec section 6): AllocatePage hands
\* out consecutive fresh ids, ReadPage/WritePage move one page image,
\* DeallocatePage releases an id and leaves the image on disk.
DiskManager ==
  [next_page_id |-> 0,
   disk |-> [p \in PageIds |-> 0]]

AllocatePage(dm) ==
  [page_id |-> dm.next_page_id,
   dm |-> [dm EXCEPT !.next_page_id = dm.next_page_id + 1]]

DeallocatePage(dm, page_id) == dm

ReadPage(dm, page_id) == dm.disk[page_id]

WritePage(dm, page_id, page_data) == [dm EXCEPT !.disk[page_id] = page_data]

\* ============================================================ buffer pool
VARIABLES
  ndebug,        \* TRUE: built with NDEBUG, assert() compiles to nothing
  status,        \* "running", "aborted" (assert / terminate), "deadlocked"
  pages,         \* pages_ : frame -> page_id_, pin_count_, is_dirty_, data_
  free_list,     \* free_list_
  replacer,      \* replacer_
  page_table,    \* page_table_
  disk_manager,  \* disk_manager_
  ret,           \* the last call: operation, page id, result, frame
  writes,        \* number of WriteData steps taken
  calls,         \* number of calls made so far
  unpin_order    \* the values whose Insert is due, earliest Insert first: in
                 \* the pool, the resident frames in the order their pin
                 \* count dropped to 0
VARIABLES
  latch_,        \* latch_ : 0 when free, else the thread that owns it
  thread         \* per thread: the call it is inside of, or Idle
VARIABLES
  latch,         \* LRUReplacer::latch : the exclusive owner (0 when there
                 \* is none) and the threads that hold it shared
  map            \* the key -> value map the calls made on a hash table
                 \* define: the last value inserted for each key that was
                 \* inserted and not removed since

vars == <<ndebug, status, pages, free_list, replacer, page_table,
          disk_manager, ret, writes, calls, unpin_order, latch_, thread,
          latch, map>>

\* a std::shared_mutex nobody holds
FreeLatch == [owner |-> 0, shared |-> {}]

\* a thread that is in no call
Idle == [op |-> "idle"]

\* Page::Page / Page::ResetMemory
EmptyPage ==
  [page_id_ |-> INVALID_PAGE_ID, pin_count_ |-> 0, is_dirty_ |-> FALSE,
   data_ |-> 0]

\* a ResetMemory that leaves the bytes
ResetMemory_keeps(page) == page

ResetMemory(page) == [page EXCEPT !.data_ = 0]

\* the members of the pool as one record
Pool ==
  [pages |-> pages, free_list |-> free_list, replacer |-> replacer,
   page_table |-> page_table, disk_manager |-> disk_manager]

\* BufferPoolManager::BufferPoolManager
NewPool(dm) ==
  [pages |-> [f \in Frames |-> EmptyPage],
   free_list |-> [i \in 1 .. PoolSize |-> i - 1],
   replacer |-> LRUReplacer,
   page_table |-> ExtendibleHash(BUCKET_SIZE),
   disk_manager |-> dm]

\* BufferPoolManager::IsAllPinned
IsAllPinned(b) == \A i \in Frames : ~(b.pages[i].pin_count_ # 0)

\* the three assertions made on a frame that is about to be reused
VictimAsserts(page) ==
  /\ ~page.is_dirty_
  /\ page.pin_count_ = 0
  /\ page.page_id_ = INVALID_PAGE_ID

\* BufferPoolManager::GetVictimPage
GetVictimPage(b, nd) ==
  IF b.free_list # <<>> THEN
    LET page == Head(b.free_list)
    IN  IF ~nd /\ ~VictimAsserts(b.pages[page])
        THEN [abort |-> TRUE, page |-> NoPage, src |-> "free", io |-> <<>>, b |-> b]
        ELSE [abort |-> FALSE, page |-> page, src |-> "free", io |-> <<>>,
              b |-> [b EXCEPT !.free_list = Tail(b.free_list)]]
  ELSE IF LRUSize(b.replacer) # 0 THEN
    LET v == LRUVictim(b.replacer)
        page == v.value
        old == b.pages[page]
        b1 == [b EXCEPT !.replacer = v.r]
    IN  IF ~nd /\ ~(v.res /\ VictimAsserts(old))
        THEN [abort |-> TRUE, page |-> NoPage, src |-> "replacer", io |-> <<>>,
              b |-> b1]
        ELSE [abort |-> FALSE, page |-> page, src |-> "replacer",
              io |-> IF old.is_dirty_
                     THEN << <<"W", old.page_id_, old.data_>> >> ELSE <<>>,
              b |-> [b1 EXCEPT
                       !.disk_manager =
                          IF old.is_dirty_
                          THEN WritePage(b.disk_manager, old.page_id_, old.data_)
                          ELSE b.disk_manager,
                       !.page_table = HashRemove(b.page_table, old.page_id_).h,
                       !.pages[page] =
                          ResetMemory([old EXCEPT !.page_id_ = INVALID_PAGE_ID])]]
  ELSE
    IF ~nd /\ ~IsAllPinned(b)
    THEN [abort |-> TRUE, page |-> NoPage, src |-> "none", io |-> <<>>, b |-> b]
    ELSE [abort |-> FALSE, page |-> NoPage, src |-> "none", io |-> <<>>, b |-> b]

\* what a call leaves behind: the pool, the returned value, the frame and page
\* id concerned, where the frame came from and the disk calls made
Result(b, res, page, pid, src, io) ==
  [b |-> b, res |-> res, page |-> page, pid |-> pid, src |-> src, io |-> io]

\* a hit that leaves the pin count alone
Pin_none(page) == page

\* page->pin_count_++
Pin(page) == [page EXCEPT !.pin_count_ = @ + 1]

\* BufferPoolManager::FetchPage
FetchPageOp(b, nd, page_id) ==
  LET f == HashFind(b.page_table, page_id)
  IN
  IF f.found THEN
    LET page == f.value
        e == IF b.pages[page].pin_count_ = 0
             THEN LRUErase(b.replacer, page)
             ELSE [res |-> TRUE, r |-> b.replacer]
        b1 == [b EXCEPT !.replacer = e.r]
    IN  IF ~nd /\ ~e.res
        THEN Result(b1, "abort", NoPage, page_id, "hit", <<>>)
        ELSE Result([b1 EXCEPT !.pages[page] = Pin(@)],
                    "page", page, page_id, "hit", <<>>)
  ELSE
    LET g == GetVictimPage(b, nd)
    IN  IF g.abort THEN Result(g.b, "abort", NoPage, page_id, g.src, g.io)
        ELSE IF g.page = NoPage
        THEN Result(g.b, "null", NoPage, page_id, g.src, g.io)
        ELSE IF ~nd /\ ~VictimAsserts(g.b.pages[g.page])
        THEN Result(g.b, "abort", NoPage, page_id, g.src, g.io)
        ELSE
          LET bytes == ReadPage(g.b.disk_manager, page_id)
          IN  Result([g.b EXCEPT
                        !.pages[g.page].page_id_ = page_id,
                        !.pages[g.page].pin_count_ = 1,
                        !.pages[g.page].data_ = bytes,
                        !.page_table = HashInsert(g.b.page_table, page_id, g.page)],
                     "page", g.page, page_id, g.src,
                     Append(g.io, <<"R", page_id, bytes>>))

\* an UnpinPage that does not look at the pin count
NotPinned_never(page) == FALSE

\* if (page->pin_count_ <= 0) return false;
NotPinned(page) == page.pin_count_ <= 0

\* an UnpinPage that overwrites the dirty flag with its argument
SetDirty_assign(page, is_dirty) == [page EXCEPT !.is_dirty_ = is_dirty]

\* page->is_dirty_ |= is_dirty
SetDirty(page, is_dirty) == [page EXCEPT !.is_dirty_ = @ \/ is_dirty]

\* BufferPoolManager::UnpinPage
UnpinPageOp(b, nd, page_id, is_dirty) ==
  LET f == HashFind(b.page_table, page_id)
      page == f.value
  IN
  IF ~f.found \/ page = NoPage THEN Result(b, "false", NoPage, page_id, "none", <<>>)
  ELSE IF NotPinned(b.pages[page])
  THEN Result(b, "false", page, page_id, "none", <<>>)
  ELSE
    \* assert(!replacer_->Erase(page)) runs Erase only when asserts are built in
    LET e == IF nd THEN [res |-> FALSE, r |-> b.replacer]
             ELSE LRUErase(b.replacer, page)
        b1 == [b EXCEPT !.replacer = e.r]
        pin == b.pages[page].pin_count_ - 1
    IN  IF e.res THEN Result(b1, "abort", page, page_id, "none", <<>>)
        ELSE Result([b1 EXCEPT
                       !.pages[page] =
                          [SetDirty(@, is_dirty) EXCEPT !.pin_count_ = pin],
                       !.replacer = IF pin = 0 THEN LRUInsert(e.r, page) ELSE e.r],
                    "true", page, page_id, "none", <<>>)

\* a FlushPage that writes the page and leaves the dirty flag set
FlushPageOp_keeps(b, nd, page_id) ==
  LET f == HashFind(b.page_table, page_id)
      page == f.value
  IN
  IF ~f.found \/ page = NoPage
  THEN Result(b, "false", NoPage, page_id, "none", <<>>)
  ELSE IF b.pages[page].is_dirty_
  THEN Result([b EXCEPT
                 !.disk_manager = WritePage(@, page_id, b.pages[page].data_)],
              "true", page, page_id, "none", <<>>)
  ELSE Result(b, "true", page, page_id, "none", <<>>)

\* BufferPoolManager::FlushPage, called with latch_ free
FlushPageOp(b, nd, page_id) ==
  LET f == HashFind(b.page_table, page_id)
      page == f.value
  IN
  IF ~nd /\ page_id = INVALID_PAGE_ID
  THEN Result(b, "abort", NoPage, page_id, "none", <<>>)
  ELSE IF ~f.found \/ page = NoPage
  THEN Result(b, "false", NoPage, page_id, "none", <<>>)
  ELSE IF b.pages[page].is_dirty_
  THEN Result([b EXCEPT
                 !.disk_manager = WritePage(@, page_id, b.pages[page].data_),
                 !.pages[page].is_dirty_ = FALSE],
              "true", page, page_id, "none",
              << <<"W", page_id, b.pages[page].data_>> >>)
  ELSE Result(b, "true", page, page_id, "none", <<>>)

\* BufferPoolManager::FlushAllPages.  It holds latch_ (lock_guard) and calls
\* FlushPage, which locks latch_ again from the same thread: after the
\* assertion on the page id, relocking a std::shared_mutex the thread owns is
\* undefined; the thread either blocks forever or lock() throws
\* std::system_error (resource_deadlock_would_occur).
FlushAllPagesOp(b, nd, relock) ==
  IF PoolSize = 0 THEN Result(b, "void", NoPage, INVALID_PAGE_ID, "none", <<>>)
  ELSE IF ~nd /\ b.pages[0].page_id_ = INVALID_PAGE_ID
  THEN Result(b, "abort", NoPage, INVALID_PAGE_ID, "none", <<>>)
  ELSE Result(b, relock, NoPage, INVALID_PAGE_ID, "none", <<>>)

\* a DeletePage that does not look at the pin count
DeleteRefused_never(page) == FALSE

\* if (page->pin_count_ != 0) return false;
DeleteRefused(page) == page.pin_count_ # 0

\* a DeletePage that resets the frame and does not hand it to the free list
DeletePageOp_nofree(b, nd, page_id) ==
  LET f == HashFind(b.page_table, page_id)
      page == f.value
  IN
  IF f.found THEN
    IF DeleteRefused(b.pages[page])
    THEN Result(b, "false", page, page_id, "none", <<>>)
    ELSE Result([b EXCEPT
                   !.page_table = HashRemove(b.page_table, page_id).h,
                   !.replacer = LRUErase(b.replacer, page).r,
                   !.pages[page] = EmptyPage],
                "true", page, page_id, "none", << <<"D", page_id, 0>> >>)
  ELSE
    Result(b, "true", NoPage, page_id, "none", << <<"D", page_id, 0>> >>)

\* BufferPoolManager::DeletePage
DeletePageOp(b, nd, page_id) ==
  LET f == HashFind(b.page_table, page_id)
      page == f.value
  IN
  IF f.found THEN
    IF DeleteRefused(b.pages[page])
    THEN Result(b, "false", page, page_id, "none", <<>>)
    ELSE
      LET rm == HashRemove(b.page_table, page_id)
          er == LRUErase(b.replacer, page)
          b1 == [b EXCEPT !.page_table = rm.h]
          b2 == [b1 EXCEPT !.replacer = er.r]
      IN  IF ~nd /\ ~rm.res THEN Result(b1, "abort", page, page_id, "none", <<>>)
          ELSE IF ~nd /\ ~er.res THEN Result(b2, "abort", page, page_id, "none", <<>>)
          ELSE Result([b2 EXCEPT
                         !.pages[page] =
                            [ResetMemory(b.pages[page]) EXCEPT
                               !.is_dirty_ = FALSE,
                               !.page_id_ = INVALID_PAGE_ID],
                         !.disk_manager = DeallocatePage(@, page_id),
                         !.free_list = Append(@, page)],
                      "true", page, page_id, "none",
                      << <<"D", page_id, 0>> >>)
  ELSE
    Result([b EXCEPT !.disk_manager = DeallocatePage(@, page_id)],
           "true", NoPage, page_id, "none", << <<"D", page_id, 0>> >>)

\* BufferPoolManager::NewPage
NewPageOp(b, nd) ==
  LET g == GetVictimPage(b, nd)
  IN
  IF g.abort THEN Result(g.b, "abort", NoPage, INVALID_PAGE_ID, g.src, g.io)
  ELSE IF g.page = NoPage
  THEN Result(g.b, "null", NoPage, INVALID_PAGE_ID, g.src, g.io)
  ELSE IF ~nd /\ ~VictimAsserts(g.b.pages[g.page])
  THEN Result(g.b, "abort", NoPage, INVALID_PAGE_ID, g.src, g.io)
  ELSE
    LET a == AllocatePage(g.b.disk_manager)
    IN  Result([g.b EXCEPT
                  !.disk_manager = a.dm,
                  !.pages[g.page].page_id_ = a.page_id,
                  !.pages[g.page].pin_count_ = 1,
                  !.page_table = HashInsert(g.b.page_table, a.page_id, g.page)],
               "page", g.page, a.page_id, g.src,
               Append(g.io, <<"A", a.page_id, 0>>))

\* ============================================================== actions
Call(op, pid, res, page, src) ==
  [op |-> op, pid |-> pid, res |-> res, page |-> page, src |-> src]

RECURSIVE Keep(_, _, _)
Keep(order, old, new) ==
  IF order = <<>> THEN <<>>
  ELSE LET f == Head(order)
       IN  (IF /\ new[f].pin_count_ = 0
               /\ new[f].page_id_ # INVALID_PAGE_ID
               /\ new[f].page_id_ = old[f].page_id_
            THEN <<f>> ELSE <<>>) \o Keep(Tail(order), old, new)

\* frames whose pin count has just dropped to 0 go to the back of the order
NextOrder(order, old, new) ==
  LET dropped == {f \in Frames : /\ old[f].pin_count_ > 0
                                 /\ new[f].pin_count_ = 0
                                 /\ new[f].page_id_ # INVALID_PAGE_ID}
      kept == Keep(order, old, new)
  IN  IF dropped = {} THEN kept
      ELSE Append(kept, CHOOSE f \in dropped : TRUE)

\* one more call is made
Count == calls < MaxCalls /\ calls' = calls + 1

\* what the call with outcome r leaves in the pool and hands to its caller
Effect(r, op) ==
  /\ pages' = r.b.pages
  /\ free_list' = r.b.free_list
  /\ replacer' = r.b.replacer
  /\ page_table' = r.b.page_table
  /\ disk_manager' = r.b.disk_manager
  /\ status' = CASE r.res = "abort" -> "aborted"
                 [] r.res = "deadlock" -> "deadlocked"
                 [] OTHER -> "running"
  /\ ret' = Call(op, r.pid, r.res, r.page, r.src)
  /\ unpin_order' = NextOrder(unpin_order, pages, r.b.pages)

\* the call returns (or the process stops) with the outcome r
Return(r, op) ==
  /\ Count
  /\ Effect(r, op)
  /\ UNCHANGED <<ndebug, writes, latch_, thread,
                 latch, map>>

Init ==
  /\ ndebug \in BOOLEAN
  /\ status = "running"
  /\ pages = NewPool(DiskManager).pages
  /\ free_list = NewPool(DiskManager).free_list
  /\ replacer = NewPool(DiskManager).replacer
  /\ page_table = NewPool(DiskManager).page_table
  /\ disk_manager = DiskManager
  /\ ret = Call("Construct", INVALID_PAGE_ID, "void", NoPage, "none")
  /\ writes = 0
  /\ calls = 0
  /\ unpin_order = <<>>
  /\ latch_ = 0
  /\ thread = [t \in Threads |-> Idle]
  /\ latch = FreeLatch
  /\ map = <<>>

NewPage ==
  /\ status = "running"
  /\ LET r == NewPageOp(Pool, ndebug)
     IN  /\ r.b.disk_manager.next_page_id <= MaxPages
         /\ Return(r, "NewPage")

\* callers fetch pages the disk manager has handed out
FetchPage(page_id) ==
  /\ status = "running"
  /\ page_id < disk_manager.next_page_id
  /\ LET r == FetchPageOp(Pool, ndebug, page_id)
     IN  /\ \A f \in Frames : r.b.pages[f].pin_count_ <= MaxPin
         /\ Return(r, "FetchPage")

UnpinPage(page_id, is_dirty) ==
  /\ status = "running"
  /\ Return(UnpinPageOp(Pool, ndebug, page_id, is_dirty), "UnpinPage")

FlushPage(page_id) ==
  /\ status = "running"
  /\ Return(FlushPageOp(Pool, ndebug, page_id), "FlushPage")

FlushAllPages ==
  /\ status = "running"
  /\ \E relock \in {"deadlock", "throw"} :
       Return(FlushAllPagesOp(Pool, ndebug, relock), "FlushAllPages")

DeletePage(page_id) ==
  /\ status = "running"
  /\ Return(DeletePageOp(Pool, ndebug, page_id), "DeletePage")

\* a thread that holds a pin on the frame changes the page's bytes
WriteData(page, bytes) ==
  /\ status = "running"
  /\ pages[page].pin_count_ > 0
  /\ pages[page].data_ # bytes
  /\ writes < MaxWrites
  /\ Count
  /\ writes' = writes + 1
  /\ pages' = [pages EXCEPT ![page].data_ = bytes]
  /\ ret' = Call("WriteData", INVALID_PAGE_ID, "void", NoPage, "none")
  /\ UNCHANGED <<ndebug, status, free_list, replacer, page_table,
                 disk_manager, unpin_order, latch_, thread,
                 latch, map>>

\* ~BufferPoolManager: FlushAllPages, then the members are freed.  An
\* exception leaving the destructor ends the process (std::terminate).
Destroy ==
  /\ status = "running"
  /\ Count
  /\ \E relock \in {"deadlock", "throw"} :
       LET r == FlushAllPagesOp(Pool, ndebug, relock)
       IN  /\ status' = IF r.res = "deadlock" THEN "deadlocked" ELSE "aborted"
           /\ ret' = Call("~BufferPoolManager", INVALID_PAGE_ID,
                          IF r.res = "deadlock" THEN "deadlock" ELSE "abort",
                          NoPage, "none")
  /\ UNCHANGED <<ndebug, pages, free_list, replacer, page_table,
                 disk_manager, writes, unpin_order, latch_, thread,
                 latch, map>>

\* a new BufferPoolManager over the same disk manager (restart)
Construct ==
  /\ status = "running"
  /\ ret.op # "Construct"
  /\ Count
  /\ pages' = NewPool(disk_manager).pages
  /\ free_list' = NewPool(disk_manager).free_list
  /\ replacer' = NewPool(disk_manager).replacer
  /\ page_table' = NewPool(disk_manager).page_table
  /\ ret' = Call("Construct", INVALID_PAGE_ID, "void", NoPage, "none")
  /\ unpin_order' = <<>>
  /\ UNCHANGED <<ndebug, status, disk_manager, writes, latch_, thread,
                 latch, map>>

Next ==
  \/ NewPage
  \/ \E p \in PageIds : FetchPage(p)
  \/ \E p \in PageIds, d \in BOOLEAN : UnpinPage(p, d)
  \/ \E p \in PageIds : FlushPage(p)
  \/ FlushAllPages
  \/ \E p \in PageIds : DeletePage(p)
  \/ \E f \in Frames, d \in Bytes : WriteData(f, d)
  \/ Destroy
  \/ Construct

Spec == Init /\ [][Next]_vars

\* ------------------------------------------------------- state functions
Running == status = "running"

InFreeList(f) == Contains(free_list, f)

InReplacer(f) == f \in LRUMembers(replacer)

\* the entries (page id, frame) the page table holds
TableEntries ==
  UNION {{<<page_table.buckets[b].keys[i], page_table.buckets[b].values[i]>> :
            i \in 1 .. Len(page_table.buckets[b].keys)} :
           b \in 1 .. Len(page_table.buckets)}

TypeOK ==
  /\ ndebug \in BOOLEAN
  /\ status \in {"running", "aborted", "deadlocked"}
  /\ \A f \in Frames :
       /\ pages[f].page_id_ \in PageIds \cup {INVALID_PAGE_ID}
       /\ pages[f].pin_count_ \in 0 .. MaxPin
       /\ pages[f].is_dirty_ \in BOOLEAN
       /\ pages[f].data_ \in Bytes
  /\ disk_manager.next_page_id \in 0 .. MaxPages

\* ---------------------------------------------------- derived quantities
RECURSIVE SumLen(_)
SumLen(buckets) ==
  IF buckets = <<>> THEN 0
  ELSE Len(Head(buckets).keys) + SumLen(Tail(buckets))

\* number of entries the page table stores
TableCount(h) == SumLen(h.buckets)

\* frames some page-table entry refers to
Tracked == {e[2] : e \in TableEntries}

Resident(f) == pages[f].page_id_ # INVALID_PAGE_ID

AllPinned == \A f \in Frames : pages[f].pin_count_ > 0

\* the page is in the pool / the frame that holds it
FrameOf(p) == HashFind(page_table, p).value

IsResident(p) == HashFind(page_table, p).found

\* ================================================================ claims

C3_ReplacerIffUnpinnedResident ==
  Running =>
    /\ \A f \in Frames :
         InReplacer(f) <=> (pages[f].pin_count_ = 0 /\ Resident(f))
    /\ LRUSize(replacer) =
         Cardinality({f \in Frames : pages[f].pin_count_ = 0 /\ Resident(f)})

\* an unpin put a frame into the replacer while another frame is pinned
C3_Witness ==
  /\ ret.op = "UnpinPage" /\ ret.res = "true"
  /\ InReplacer(ret.page)
  /\ \E f \in Frames : pages[f].pin_count_ > 0

Current(p) ==
  IF IsResident(p) THEN pages[FrameOf(p)].data_ ELSE disk_manager.disk[p]

\* p's bytes were handed over properly: whatever its frame holds beyond the
\* disk image is marked dirty (UnpinPage(p, true) after the write)
Marked(p) ==
  IsResident(p) =>
    \/ pages[FrameOf(p)].is_dirty_
    \/ pages[FrameOf(p)].data_ = disk_manager.disk[p]

\* the step is a pool call other than DeletePage(p), or, when restart is
\* admitted, the construction of a new pool right after FlushAllPages
KeepsPage(p, restart) ==
  \/ ret'.op \in {"NewPage", "FetchPage", "UnpinPage", "FlushPage",
                  "FlushAllPages"}
  \/ ret'.op = "DeletePage" /\ ret'.pid # p
  \/ restart /\ ret'.op = "Construct" /\ ret.op = "FlushAllPages"

RoundTripStep(p, restart) ==
  (/\ p < disk_manager.next_page_id
   /\ Marked(p)
   /\ status' = "running"
   /\ KeepsPage(p, restart))
  => /\ Current(p)' = Current(p)
     /\ Marked(p)'
     /\ (ret'.op = "FetchPage" /\ ret'.pid = p /\ ret'.res = "page")
          => pages'[ret'.page].data_ = Current(p)

\* C5: once bytes B of page p are in its frame and marked dirty by
\* UnpinPage(p, true), every later call keeps them as the bytes of p (in the
\* frame or, after an eviction, on disk) and a FetchPage(p) returns a frame
\* holding them; this also holds across FlushAllPages followed by the
\* construction of a new pool over the same disk manager.
C5_RoundTrip == [][\A p \in PageIds : RoundTripStep(p, TRUE)]_vars

\* the same without the restart: evictions and fetches alone keep the bytes
C5_RoundTripInPool == [][\A p \in PageIds : RoundTripStep(p, FALSE)]_vars

\* ------------------------------------------------------- victim selection
RECURSIVE FirstIn(_, _)
FirstIn(order, S) ==
  IF order = <<>> THEN NoPage
  ELSE IF Head(order) \in S THEN Head(order)
  ELSE FirstIn(Tail(order), S)

\* the step is a NewPage, or a FetchPage of a page that is not in the pool
NeedsFrame ==
  \/ ret'.op = "NewPage"
  \/ ret'.op = "FetchPage" /\ ~IsResident(ret'.pid)

PoolUnchanged ==
  UNCHANGED <<pages, free_list, replacer, page_table, disk_manager>>

\* C6: a NewPage or missing FetchPage takes the front of the free list when
\* the free list is not empty, and then evicts nothing; only when the free
\* list is empty does it take a frame out of the replacer, and that frame is
\* the one whose pin count dropped to 0 earliest among the frames in the
\* replacer.
C6_VictimOrder ==
  [][NeedsFrame =>
       IF free_list # <<>>
       THEN /\ ret'.res = "page"
            /\ ret'.page = Head(free_list)
            /\ free_list' = Tail(free_list)
            /\ replacer' = replacer
            /\ \A q \in PageIds : IsResident(q) => HashFind(page_table', q).found
       ELSE IF LRUSize(replacer) # 0
       THEN /\ LRUMembers(replacer) \ LRUMembers(replacer') =
                 {FirstIn(unpin_order, LRUMembers(replacer))}
            /\ LRUMembers(replacer') \subseteq LRUMembers(replacer)
            /\ ret'.res = "page" =>
                 ret'.page = FirstIn(unpin_order, LRUMembers(replacer))
            /\ free_list' = free_list
       ELSE ret'.res # "page"]_vars

\* a frame was evicted for a new page while another frame stayed evictable
C6_Witness ==
  /\ ret.op = "NewPage" /\ ret.res = "page" /\ ret.src = "replacer"
  /\ LRUSize(replacer) >= 1

\* C7: NewPage and a missing FetchPage return none exactly when every frame
\* is pinned; then NewPage reports INVALID_PAGE_ID, nothing in the pool
\* changes and no page id is taken from the disk manager.
C7_Exhaustion ==
  [][NeedsFrame =>
       /\ (ret'.res = "null") <=> AllPinned
       /\ AllPinned => (free_list = <<>> /\ LRUSize(replacer) = 0)
       /\ ret'.res = "null" =>
            /\ ret'.op = "NewPage" => ret'.pid = INVALID_PAGE_ID
            /\ PoolUnchanged
       /\ (ret'.op = "NewPage" /\ ret'.res = "page") =>
            ret'.pid = disk_manager.next_page_id]_vars

\* the same for the build without assertions
C7_ExhaustionNdebug ==
  [][(ndebug /\ NeedsFrame) =>
       /\ (ret'.res = "null") <=> AllPinned
       /\ ret'.res = "null" =>
            /\ ret'.op = "NewPage" => ret'.pid = INVALID_PAGE_ID
            /\ PoolUnchanged]_vars

\* C8: after a FetchPage(p) that misses and obtains frame V: V holds p with
\* pin count 1 and dirty false, the page table maps p to V, the page V held
\* before is out of the page table and, if V was dirty, its bytes are on
\* disk under the old page id.
C8_FetchMiss ==
  [][(ret'.op = "FetchPage" /\ ~IsResident(ret'.pid) /\ ret'.res = "page") =>
       LET V == ret'.page
           p == ret'.pid
           old == pages[V]
       IN  /\ pages'[V].page_id_ = p
           /\ pages'[V].pin_count_ = 1
           /\ pages'[V].is_dirty_ = FALSE
           /\ HashFind(page_table', p).found
           /\ HashFind(page_table', p).value = V
           /\ old.page_id_ # INVALID_PAGE_ID =>
                /\ ~HashFind(page_table', old.page_id_).found
                /\ old.is_dirty_ =>
                     disk_manager'.disk[old.page_id_] = old.data_]_vars

\* C9: a successful NewPage returns a zeroed frame with pin count 1 and dirty
\* false, holding the id P the disk manager allocated, with (P -> frame) in
\* the page table and P reported; it succeeds as long as the free list is
\* not empty (so the first pool_size calls give ids 0 .. pool_size - 1).
C9_NewPage ==
  [][ret'.op = "NewPage" =>
       /\ free_list # <<>> => ret'.res = "page"
       /\ ret'.res = "page" =>
            LET V == ret'.page
            IN  /\ pages'[V].data_ = 0
                /\ pages'[V].pin_count_ = 1
                /\ pages'[V].is_dirty_ = FALSE
                /\ ret'.pid = disk_manager.next_page_id
                /\ disk_manager'.next_page_id = disk_manager.next_page_id + 1
                /\ pages'[V].page_id_ = ret'.pid
                /\ ~IsResident(ret'.pid)
                /\ HashFind(page_table', ret'.pid).found
                /\ HashFind(page_table', ret'.pid).value = V]_vars

RECURSIVE Without(_, _)
Without(seq, x) ==
  IF seq = <<>> THEN <<>>
  ELSE (IF Head(seq) = x THEN <<>> ELSE <<Head(seq)>>) \o Without(Tail(seq), x)

\* C10: FetchPage(p) of a resident page returns the frame holding p, adds
\* exactly 1 to its pin count, takes the frame out of the replacer if the pin
\* count was 0, and changes nothing else.
C10_FetchHit ==
  [][(ret'.op = "FetchPage" /\ IsResident(ret'.pid)) =>
       LET F == FrameOf(ret'.pid)
       IN  /\ ret'.res = "page"
           /\ ret'.page = F
           /\ pages'[F].pin_count_ = pages[F].pin_count_ + 1
           /\ pages' = [pages EXCEPT ![F].pin_count_ = pages'[F].pin_count_]
           /\ page_table' = page_table
           /\ free_list' = free_list
           /\ disk_manager' = disk_manager
           /\ F \notin LRUMembers(replacer')
           /\ replacer'.lru_list = Without(replacer.lru_list, F)
           /\ LRUMembers(replacer') = LRUMembers(replacer) \ {F}
           /\ pages[F].pin_count_ > 0 => replacer' = replacer]_vars

\* a page with pin count 0 was fetched again and left the replacer
C10_Witness ==
  /\ ret.op = "FetchPage" /\ ret.res = "page" /\ ret.src = "hit"
  /\ pages[ret.page].pin_count_ = 1
  /\ ~InReplacer(ret.page)

\* C11: UnpinPage(p, d) returns false and changes nothing in the pool when p
\* is not in the page table or its frame's pin count is already <= 0;
\* otherwise it returns true and lowers that pin count by exactly 1, leaving
\* every other pin count alone; no pin count is ever negative.
C11_UnpinPage ==
  [][ret'.op = "UnpinPage" =>
       /\ IF ~IsResident(ret'.pid) \/ pages[FrameOf(ret'.pid)].pin_count_ <= 0
          THEN ret'.res = "false" /\ PoolUnchanged
          ELSE LET F == FrameOf(ret'.pid)
               IN  /\ ret'.res = "true"
                   /\ pages'[F].pin_count_ = pages[F].pin_count_ - 1
                   /\ \A f \in Frames \ {F} :
                        pages'[f].pin_count_ = pages[f].pin_count_
       /\ \A f \in Frames : pages'[f].pin_count_ >= 0]_vars

\* an unpin of a resident page whose pin count is already 0 was refused
C11_Witness ==
  /\ ret.op = "UnpinPage" /\ ret.res = "false"
  /\ ret.page # NoPage
  /\ pages[ret.page].page_id_ = ret.pid
  /\ pages[ret.page].pin_count_ = 0

\* ---------------------------------------------------------- pin balance
\* the pin count of page p; a page that is not in the pool has none
PinOf(p) ==
  LET f == HashFind(page_table, p)
  IN  IF f.found THEN pages[f.value].pin_count_ ELSE 0

\* a resident page that nobody pins has its frame in the replacer
Evictable(p) ==
  LET f == HashFind(page_table, p)
  IN  (f.found /\ pages[f.value].pin_count_ = 0) =>
         f.value \in LRUMembers(replacer)

\* the step is a successful FetchPage(p) or the NewPage that created p
PinsPage(p) ==
  ret'.op \in {"FetchPage", "NewPage"} /\ ret'.res = "page" /\ ret'.pid = p

\* the step is a successful UnpinPage(p, _)
UnpinsPage(p) == ret'.op = "UnpinPage" /\ ret'.res = "true" /\ ret'.pid = p

Evicts(f) == ret'.src = "replacer" /\ ret'.page = f

\* C13: a successful UnpinPage(p, d) leaves the frame's dirty flag equal to
\* (old flag OR d), so no UnpinPage clears a flag; a flag that is set is
\* cleared only by a flush of the page, or when the frame is given up (an
\* eviction, the frame reset of DeletePage, a new pool).
C13_StickyDirty ==
  [][/\ (ret'.op = "UnpinPage" /\ ret'.res = "true") =>
          \A d \in BOOLEAN :
            UnpinPage(ret'.pid, d) =>
               /\ pages'[FrameOf(ret'.pid)].is_dirty_ =
                    (pages[FrameOf(ret'.pid)].is_dirty_ \/ d)
               /\ \A f \in Frames \ {FrameOf(ret'.pid)} :
                    pages'[f].is_dirty_ = pages[f].is_dirty_
     /\ \A f \in Frames :
          (pages[f].is_dirty_ /\ ~pages'[f].is_dirty_) =>
             \/ ret'.op \in {"FlushPage", "FlushAllPages"}
                  /\ ret'.pid = pages[f].page_id_
             \/ Evicts(f)
             \/ ret'.op = "DeletePage" /\ ret'.pid = pages[f].page_id_
                  /\ pages'[f].page_id_ = INVALID_PAGE_ID
             \/ ret'.op = "Construct"]_vars

\* an unpin was accepted on a page that is dirty and still pinned, while
\* another resident page is clean
C13_Witness ==
  /\ ret.op = "UnpinPage" /\ ret.res = "true"
  /\ pages[ret.page].is_dirty_
  /\ pages[ret.page].pin_count_ > 0
  /\ \E f \in Frames : Resident(f) /\ ~pages[f].is_dirty_

\* ------------------------------------------------------------- flushing
\* C14: every public operation returns to its caller: no call, FlushAllPages
\* and the destructor included, ends blocked on latch_ (or leaves through
\* the exception a refused relock raises).
C14_OperationsReturn ==
  [][ret'.res \notin {"deadlock", "throw"}]_vars

\* C15: FlushAllPages raises no error on free frames, writes every resident
\* dirty frame to disk under its page id and leaves every frame clean and
\* the pin counts, page ids, bytes, page table, replacer and free list as
\* they were.
C15_FlushAllPages ==
  [][ret'.op = "FlushAllPages" =>
       /\ status' # "aborted"
       /\ \A f \in Frames :
            (Resident(f) /\ pages[f].is_dirty_) =>
               disk_manager'.disk[pages[f].page_id_] = pages[f].data_
       /\ pages' = [f \in Frames |-> [pages[f] EXCEPT !.is_dirty_ = FALSE]]
       /\ UNCHANGED <<page_table, replacer, free_list>>]_vars

\* C16: FlushPage(p) returns false and changes nothing when p is not in the
\* page table; otherwise it returns true, writes the frame's bytes to disk
\* under p exactly when the frame is dirty, leaves the frame clean and
\* everything else (pin counts, replacer, page table, free list) unchanged,
\* pinned or not.
C16_FlushPage ==
  [][ret'.op = "FlushPage" =>
       IF ~IsResident(ret'.pid)
       THEN ret'.res = "false" /\ PoolUnchanged
       ELSE LET F == FrameOf(ret'.pid)
            IN  /\ ret'.res = "true"
                /\ disk_manager' =
                     IF pages[F].is_dirty_
                     THEN [disk_manager EXCEPT
                             !.disk[ret'.pid] = pages[F].data_]
                     ELSE disk_manager
                /\ pages' = [pages EXCEPT ![F].is_dirty_ = FALSE]
                /\ UNCHANGED <<page_table, replacer, free_list>>]_vars

\* a pinned page with changed bytes was flushed: the bytes are on disk and
\* the frame is clean and still pinned
C16_Witness ==
  /\ ret.op = "FlushPage" /\ ret.res = "true"
  /\ pages[ret.page].pin_count_ > 0
  /\ ~pages[ret.page].is_dirty_
  /\ pages[ret.page].data_ # 0
  /\ disk_manager.disk[ret.pid] = pages[ret.page].data_

\* ------------------------------------------------------------- deletion
\* the calls DeletePage(p) makes to the disk manager from the current state
DeleteCalls(p) == DeletePageOp(Pool, ndebug, p).io

\* C17: DeletePage(p) on a resident page with pin count not 0 returns false,
\* changes nothing and does not call DeallocatePage; on a resident page with
\* pin count 0 it returns true, p leaves the page table, its frame leaves
\* the replacer and is appended to the free list with page id INVALID,
\* dirty false and zeroed bytes; on a page that is not resident it returns
\* true and changes nothing in the pool; whenever it returns true
\* DeallocatePage(p) was called.
C17_DeletePage ==
  [][ret'.op = "DeletePage" =>
       LET p == ret'.pid
           F == FrameOf(p)
       IN  /\ IF IsResident(p) /\ pages[F].pin_count_ # 0
              THEN ret'.res = "false" /\ PoolUnchanged
              ELSE IF IsResident(p)
              THEN /\ ret'.res = "true"
                   /\ ~HashFind(page_table', p).found
                   /\ TableEntries' = TableEntries \ {<<p, F>>}
                   /\ LRUMembers(replacer') = LRUMembers(replacer) \ {F}
                   /\ F \in LRUMembers(replacer)
                   /\ free_list' = Append(free_list, F)
                   /\ pages' = [pages EXCEPT ![F] = EmptyPage]
              ELSE /\ ret'.res = "true"
                   /\ UNCHANGED <<pages, page_table, replacer, free_list>>
           /\ (ret'.res = "true") <=> (DeleteCalls(p) = << <<"D", p, 0>> >>)
           /\ (ret'.res = "false") <=> (DeleteCalls(p) = <<>>)]_vars

\* a resident page whose bytes had reached the disk was deleted while
\* another page is pinned: its frame is the last of the free list and empty
C17_Witness ==
  /\ ret.op = "DeletePage" /\ ret.res = "true" /\ ret.page # NoPage
  /\ free_list # <<>> /\ free_list[Len(free_list)] = ret.page
  /\ pages[ret.page] = EmptyPage
  /\ disk_manager.disk[ret.pid] # 0
  /\ \E f \in Frames : pages[f].pin_count_ > 0

\* -------------------------------------------------------- introspection
\* BufferPoolManager::GetPageTableSize
GetPageTableSize == GetSize(page_table)

\* C19: between calls GetPageTableSize() is the number of keys stored in the
\* page table, which is the number of resident pages.
C19_PageTableSize ==
  Running =>
    /\ GetPageTableSize = TableCount(page_table)
    /\ GetPageTableSize = Cardinality({f \in Frames : Resident(f)})

\* ======================================================= LRU replacer alone
\* An LRUReplacer<int> driven directly by its caller (lru_replacer_test.cpp).
\* It lives in the variable replacer; unpin_order keeps the members in the
\* order of their most recent Insert; the pool's other members stay as
\* constructed.  Each operation holds the replacer's latch for its whole
\* body.
Values == 1 .. MaxValue

Bool(b) == IF b THEN "true" ELSE "false"

\* the order in which the members' last Inserts were made, after one more
\* call: Insert moves the value to the end, a Victim or Erase that returns
\* true takes its value out
LRUOrder(order, op, value, res) ==
  CASE op = "Insert" -> Append(Without(order, value), value)
    [] op \in {"Victim", "Erase"} /\ res = "true" -> Without(order, value)
    [] OTHER -> order

\* the call on the replacer r ends with r1 and the result res for value
LRUReturn(op, value, res, r1) ==
  /\ status = "running"
  /\ IF ~ndebug /\ ~LRUAssert(replacer)
     THEN /\ status' = "aborted"
          /\ replacer' = replacer
          /\ ret' = Call(op, value, "abort", NoPage, "none")
          /\ unpin_order' = unpin_order
     ELSE /\ status' = "running"
          /\ replacer' = r1
          /\ ret' = Call(op, value, res, NoPage, "none")
          /\ unpin_order' = LRUOrder(unpin_order, op, value, res)
  /\ UNCHANGED <<ndebug, pages, free_list, page_table, disk_manager,
                 writes, calls, latch_, thread,
                 latch, map>>

Insert(value) ==
  LRUReturn("Insert", value, "void", LRUInsert(replacer, value))

\* Victim tests ht.empty() before its assertion
Victim ==
  LET v == LRUVictim(replacer)
  IN  IF v.res
      THEN LRUReturn("Victim", v.value, "true", v.r)
      ELSE /\ status = "running"
           /\ ret' = Call("Victim", NoPage, "false", NoPage, "none")
           /\ UNCHANGED <<ndebug, status, pages, free_list, replacer,
                          page_table, disk_manager, writes, calls,
                          unpin_order, latch_, thread,
                 latch, map>>

Erase(value) ==
  LET e == LRUErase(replacer, value)
  IN  LRUReturn("Erase", value, Bool(e.res), e.r)

Size ==
  LRUReturn("Size", LRUSize(replacer), "void", replacer)

NextLRU ==
  \/ \E v \in Values : Insert(v)
  \/ Victim
  \/ \E v \in Values : Erase(v)
  \/ Size

SpecLRU == Init /\ [][NextLRU]_vars

\* C20: Victim on a non-empty replacer returns true with the member whose
\* most recent Insert is the earliest, and removes exactly that member,
\* keeping the order of the others; Victim on an empty replacer returns
\* false and changes nothing.
C20_Victim ==
  [][ret'.op = "Victim" =>
       IF LRUMembers(replacer) # {}
       THEN /\ ret'.res = "true"
            /\ unpin_order # <<>>
            /\ ret'.pid = Head(unpin_order)
            /\ LRUMembers(replacer') = LRUMembers(replacer) \ {ret'.pid}
            /\ replacer'.lru_list = Without(replacer.lru_list, ret'.pid)
            /\ LRUSize(replacer') = LRUSize(replacer) - 1
       ELSE /\ ret'.res = "false"
            /\ replacer' = replacer]_vars

\* Insert 1, 2, 3, 4, 5, 6, 1 and three Victims: the third yields 4 and
\* leaves 5, 6, 1
C20_Witness ==
  /\ ret.op = "Victim" /\ ret.res = "true" /\ ret.pid = 4
  /\ unpin_order = <<5, 6, 1>>
  /\ replacer.lru_list = <<1, 6, 5>>

\* C21: Insert(v) of a member moves v to the most-recently-used position
\* (the front of lru_list, the last to be chosen by Victim), keeps Size and
\* the members, and keeps the order of the other members; Insert(v) of a
\* value that is absent puts it at that position in front of the unchanged
\* others and raises Size by 1.
C21_Insert ==
  [][(ret'.op = "Insert" /\ ret'.res = "void") =>
       LET v == ret'.pid
       IN  IF v \in LRUMembers(replacer)
           THEN /\ replacer'.lru_list = <<v>> \o Without(replacer.lru_list, v)
                /\ LRUMembers(replacer') = LRUMembers(replacer)
                /\ LRUSize(replacer') = LRUSize(replacer)
           ELSE /\ replacer'.lru_list = <<v>> \o replacer.lru_list
                /\ LRUMembers(replacer') = LRUMembers(replacer) \cup {v}
                /\ LRUSize(replacer') = LRUSize(replacer) + 1]_vars

\* Insert 1, 2, 3, 4, 5, 6 and 1 again: six members, 1 in front, the others
\* in the order they had
C21_Witness ==
  /\ ret.op = "Insert" /\ ret.pid = 1
  /\ replacer.lru_list = <<1, 6, 5, 4, 3, 2>>
  /\ LRUSize(replacer) = 6
  /\ unpin_order = <<2, 3, 4, 5, 6, 1>>

\* C22: Erase(v) returns true exactly when v is a member; it then removes v
\* and nothing else (Size drops by 1, the others keep their order); Erase of
\* an absent value returns false and leaves the replacer as it is; an Erase
\* of the value a successful Erase has just removed returns false.
C22_Erase ==
  [][ret'.op = "Erase" =>
       LET v == ret'.pid
       IN  /\ IF v \in LRUMembers(replacer)
              THEN /\ ret'.res = "true"
                   /\ LRUMembers(replacer') = LRUMembers(replacer) \ {v}
                   /\ LRUSize(replacer') = LRUSize(replacer) - 1
                   /\ replacer'.lru_list = Without(replacer.lru_list, v)
              ELSE /\ ret'.res = "false"
                   /\ replacer' = replacer
           /\ (ret.op = "Erase" /\ ret.res = "true" /\ ret.pid = v)
                => ret'.res = "false"]_vars

\* Insert 1, 2, 3, 4, 5, 6, 1, three Victims, then Erase(6): 1 and 5 remain
C22_Witness ==
  /\ ret.op = "Erase" /\ ret.pid = 6 /\ ret.res = "true"
  /\ replacer.lru_list = <<1, 5>>
  /\ unpin_order = <<5, 1>>
  /\ LRUSize(replacer) = 2

\* ==================================================== threads on one pool
\* Several threads call FetchPage, UnpinPage, NewPage, DeletePage and
\* FlushPage.  Each of them constructs std::lock_guard on latch_ before its
\* first access to the pool and releases it on return.  A call is two steps:
\* Enter acquires latch_ and reads the pool (the outcome r is computed from
\* what is read), Leave writes the outcome back and releases latch_.

\* std::lock_guard<std::shared_mutex> lock(latch_) on a latch nobody checks
CanLock_always(l) == TRUE

\* std::lock_guard<std::shared_mutex> lock(latch_) can be acquired
CanLock(l) == l = 0

\* the calls a thread may make: operation, page id, dirty argument
PoolCalls ==
  {<<"NewPage", INVALID_PAGE_ID, FALSE>>}
    \cup {<<op, p, FALSE>> : op \in {"FetchPage", "FlushPage", "DeletePage"},
                             p \in PageIds}
    \cup {<<"UnpinPage", p, d>> : p \in PageIds, d \in BOOLEAN}

\* the outcome of the call c on the pool b
ApplyCall(b, nd, c) ==
  CASE c[1] = "NewPage" -> NewPageOp(b, nd)
    [] c[1] = "FetchPage" -> FetchPageOp(b, nd, c[2])
    [] c[1] = "UnpinPage" -> UnpinPageOp(b, nd, c[2], c[3])
    [] c[1] = "FlushPage" -> FlushPageOp(b, nd, c[2])
    [] c[1] = "DeletePage" -> DeletePageOp(b, nd, c[2])

\* calls that have entered and not yet left
InCall == {t \in Threads : thread[t] # Idle}

Enter(t, c) ==
  /\ status = "running"
  /\ thread[t] = Idle
  /\ CanLock(latch_)
  /\ calls + Cardinality(InCall) < MaxCallsMT
  /\ c[1] = "FetchPage" => c[2] < disk_manager.next_page_id
  /\ LET r == ApplyCall(Pool, ndebug, c)
     IN  /\ r.b.disk_manager.next_page_id <= MaxPages
         /\ \A f \in Frames : r.b.pages[f].pin_count_ <= MaxPin
         /\ thread' = [thread EXCEPT ![t] = [op |-> c[1], call |-> c, r |-> r]]
  /\ latch_' = t
  /\ UNCHANGED <<ndebug, status, pages, free_list, replacer, page_table,
                 disk_manager, ret, writes, calls, unpin_order, latch, map>>

Leave(t) ==
  /\ status = "running"
  /\ thread[t] # Idle
  /\ Effect(thread[t].r, thread[t].op)
  /\ calls' = calls + 1
  /\ latch_' = 0
  /\ thread' = [thread EXCEPT ![t] = Idle]
  /\ UNCHANGED <<ndebug, writes, latch, map>>

NextMT ==
  \/ \E t \in Threads, c \in PoolCalls : Enter(t, c)
  \/ \E t \in Threads : Leave(t)

SpecMT == Init /\ [][NextMT]_vars

\* C18: whatever the interleaving, at most one thread is inside a call's
\* accesses, no pool state changes while a call is entered, and every call
\* leaves the pool, and returns to its caller, exactly what the same call
\* made alone on the pool as it is at that moment leaves and returns: the
\* calls take effect one at a time in the order in which they leave.
C18_Linearizable ==
  [][/\ Cardinality(InCall') <= 1
     /\ \A t \in Threads :
          (thread[t] = Idle /\ thread'[t] # Idle) => PoolUnchanged /\ ret' = ret
     /\ \A t \in Threads :
          (thread[t] # Idle /\ thread'[t] = Idle) =>
             Effect(ApplyCall(Pool, ndebug, thread[t].call), thread[t].op)]_vars

\* thread 2 is inside an UnpinPage under the latch after two calls,
\* the last a NewPage, have left
C18_Witness ==
  /\ latch_ = 2
  /\ thread[2] # Idle /\ thread[2].op = "UnpinPage"
  /\ thread[2].r.res = "true"
  /\ thread[1] = Idle
  /\ calls >= 2
  /\ ret.op = "NewPage" /\ ret.res = "page"

\* ================================================ threads on one replacer
\* Several threads call Insert, Victim, Erase and Size on one LRUReplacer.
\* Insert, Victim and Erase construct std::lock_guard on latch (exclusive),
\* Size constructs std::shared_lock; each holds it until it returns.  A call
\* is two steps: LRUEnter acquires latch and reads, LRULeave writes the
\* outcome and releases latch.
ValuesMT == 1 .. MaxValueMT

\* a lock_guard that is granted whoever holds the latch
CanLockExclusive_always(l) == TRUE

\* std::lock_guard<std::shared_mutex> lockGuard(latch) can be acquired
CanLockExclusive(l) == l.owner = 0 /\ l.shared = {}

\* std::shared_lock<std::shared_mutex> lockGuard(latch) can be acquired
CanLockShared(l) == l.owner = 0

\* the calls a thread may make: operation, argument
LRUCalls ==
  {<<op, v>> : op \in {"Insert", "Erase"}, v \in ValuesMT}
    \cup {<<"Victim", NoPage>>, <<"Size", NoPage>>}

\* the outcome of the call c on the replacer r: the replacer it leaves, its
\* result and the value it concerns
LRUApply(r, nd, c) ==
  IF ~nd /\ ~LRUAssert(r) /\ ~(c[1] = "Victim" /\ DOMAIN r.ht = {})
  THEN [r |-> r, res |-> "abort", value |-> c[2]]
  ELSE CASE c[1] = "Insert" ->
              [r |-> LRUInsert(r, c[2]), res |-> "void", value |-> c[2]]
         [] c[1] = "Victim" ->
              LET v == LRUVictim(r)
              IN  [r |-> v.r, res |-> Bool(v.res), value |-> v.value]
         [] c[1] = "Erase" ->
              LET e == LRUErase(r, c[2])
              IN  [r |-> e.r, res |-> Bool(e.res), value |-> c[2]]
         [] c[1] = "Size" ->
              [r |-> r, res |-> "void", value |-> LRUSize(r)]

LRUEnter(t, c) ==
  /\ status = "running"
  /\ thread[t] = Idle
  /\ IF c[1] = "Size"
     THEN /\ CanLockShared(latch)
          /\ latch' = [latch EXCEPT !.shared = @ \cup {t}]
     ELSE /\ CanLockExclusive(latch)
          /\ latch' = [latch EXCEPT !.owner = t]
  /\ thread' = [thread EXCEPT
                  ![t] = [op |-> c[1], call |-> c,
                          r |-> LRUApply(replacer, ndebug, c)]]
  /\ UNCHANGED <<ndebug, status, pages, free_list, replacer, page_table,
                 disk_manager, ret, writes, calls, unpin_order, latch_, map>>

\* what the outcome o of the call op leaves in the replacer and hands back
LRUEffect(o, op) ==
  /\ replacer' = o.r
  /\ status' = IF o.res = "abort" THEN "aborted" ELSE "running"
  /\ ret' = Call(op, o.value, o.res, NoPage, "none")
  /\ unpin_order' = LRUOrder(unpin_order, op, o.value, o.res)

LRULeave(t) ==
  /\ status = "running"
  /\ thread[t] # Idle
  /\ LRUEffect(thread[t].r, thread[t].op)
  /\ latch' = [owner |-> IF latch.owner = t THEN 0 ELSE latch.owner,
               shared |-> latch.shared \ {t}]
  /\ thread' = [thread EXCEPT ![t] = Idle]
  /\ UNCHANGED <<ndebug, pages, free_list, page_table, disk_manager, writes,
                 calls, latch_, map>>

NextLRUMT ==
  \/ \E t \in Threads, c \in LRUCalls : LRUEnter(t, c)
  \/ \E t \in Threads : LRULeave(t)

SpecLRUMT == Init /\ [][NextLRUMT]_vars

\* threads inside Insert, Victim or Erase / inside Size
Writers == {t \in Threads : thread[t] # Idle /\ thread[t].op # "Size"}

Readers == {t \in Threads : thread[t] # Idle /\ thread[t].op = "Size"}

RECURSIVE Reverse(_)
Reverse(seq) ==
  IF seq = <<>> THEN <<>> ELSE Append(Reverse(Tail(seq)), Head(seq))

\* C23: whatever the interleaving, at most one thread is inside Insert,
\* Victim or Erase and none is inside Size meanwhile; entering a call changes
\* nothing; every call leaves in the replacer, and returns, exactly what the
\* same call made alone on the replacer as it is at that moment leaves and
\* returns, so the replacer always holds the members of the calls taken one
\* at a time in the order they leave, least recently inserted last in
\* lru_list; a Victim or Erase that returns true takes its value out, so
\* the value is handed out again only after another Insert of it.
C23_LRULinearizable ==
  [][/\ Cardinality(Writers') <= 1
     /\ Writers' # {} => Readers' = {}
     /\ \A t \in Threads :
          (thread[t] = Idle /\ thread'[t] # Idle) =>
             /\ replacer' = replacer
             /\ ret' = ret
             /\ unpin_order' = unpin_order
     /\ \A t \in Threads :
          (thread[t] # Idle /\ thread'[t] = Idle) =>
             /\ LRUEffect(LRUApply(replacer, ndebug, thread[t].call),
                          thread[t].op)
             /\ (thread[t].op \in {"Victim", "Erase"} /\ ret'.res = "true")
                  => /\ ret'.pid \in LRUMembers(replacer)
                     /\ ret'.pid \notin LRUMembers(replacer')
             /\ thread[t].op = "Size" => ret'.pid = Len(unpin_order)
     /\ replacer'.lru_list = Reverse(unpin_order')
     /\ LRUSize(replacer') = Len(unpin_order')]_vars

\* both threads are inside Size at once, after Inserts of two values have
\* left, and each of them has read 2
C23_Witness ==
  /\ latch.owner = 0 /\ latch.shared = {1, 2}
  /\ thread[1] # Idle /\ thread[1].op = "Size" /\ thread[1].r.value = 2
  /\ thread[2] # Idle /\ thread[2].op = "Size" /\ thread[2].r.value = 2
  /\ ret.op = "Insert"
  /\ LRUSize(replacer) = 2

\* ================================================== extendible hash alone
\* ExtendibleHash<int, int> driven directly, single-threaded: Insert and
\* Remove in every order on a table built with bucket size 1 .. MaxBucketSize.
\* The table is page_table; map is the key -> value map the same calls
\* define.  Find, GetGlobalDepth, GetLocalDepth and GetNumBuckets change
\* nothing and are read off the state.  Every key is below 2^KeyBits.
\* the keys the calls use: with bucket size 1, two keys that agree in their
\* low four bits and three odd keys; otherwise the keys of BasicDepthTest
Keys ==
  IF page_table.bucketSize = 1 THEN {3, 14, 25, 27, 30} ELSE {1, 3, 6, 10, 14}

HashValues == {0, 1}

BucketSizes == 1 .. MaxBucketSize

InitHash ==
  /\ ndebug \in BOOLEAN
  /\ status = "running"
  /\ pages = NewPool(DiskManager).pages
  /\ free_list = NewPool(DiskManager).free_list
  /\ replacer = NewPool(DiskManager).replacer
  /\ page_table \in {ExtendibleHash(size) : size \in BucketSizes}
  /\ disk_manager = DiskManager
  /\ ret = Call("Construct", INVALID_PAGE_ID, "void", NoPage, "none")
  /\ writes = 0
  /\ calls = 0
  /\ unpin_order = <<>>
  /\ latch_ = 0
  /\ thread = [t \in Threads |-> Idle]
  /\ latch = FreeLatch
  /\ map = <<>>

\* the number of calls made so far, no longer counted once it reaches max
CountTo(n, max) == IF n < max THEN n + 1 ELSE n

\* the reference map after Insert(key, value) / Remove(key)
MapInsert(m, key, value) ==
  [k \in DOMAIN m \cup {key} |-> IF k = key THEN value ELSE m[k]]

MapRemove(m, key) == [k \in DOMAIN m \ {key} |-> m[k]]

\* ExtendibleHash::Insert.  An Insert whose loop never ends doubles the
\* bucket address table round after round: the process ends in
\* std::bad_alloc, or reaches depth 32 and reads past LAST_N_TH_BIT_MASK.
TableInsert(key, value) ==
  /\ status = "running"
  /\ LET e == Exists(page_table, key, value)
         h1 == HashInsert(page_table, key, value)
     IN  IF e.res
         THEN /\ page_table' = e.h
              /\ status' = "running"
              /\ ret' = Call("Insert", key, "void", value, "none")
         ELSE IF ~ndebug /\ ~InsertAsserts(page_table, key)
         THEN /\ page_table' = page_table
              /\ status' = "aborted"
              /\ ret' = Call("Insert", key, "abort", value, "none")
         ELSE IF Unending(page_table, key)
         THEN /\ page_table' = h1
              /\ status' = "aborted"
              /\ \E end \in {"bad_alloc", "undefined"} :
                   ret' = Call("Insert", key, end, value, "none")
         ELSE IF ~ndebug /\ ~InsertAsserts(h1, key)
         THEN /\ page_table' = h1
              /\ status' = "aborted"
              /\ ret' = Call("Insert", key, "abort", value, "none")
         ELSE /\ page_table' = h1
              /\ status' = "running"
              /\ ret' = Call("Insert", key, "void", value, "none")
  /\ map' = MapInsert(map, key, value)
  /\ calls' = CountTo(calls, MaxCallsHash)
  /\ UNCHANGED <<ndebug, pages, free_list, replacer, disk_manager, writes,
                 unpin_order, latch_, thread, latch>>

\* ExtendibleHash::Remove
TableRemove(key) ==
  /\ status = "running"
  /\ LET rm == HashRemove(page_table, key)
     IN  /\ page_table' = rm.h
         /\ ret' = Call("Remove", key, Bool(rm.res), NoPage, "none")
  /\ map' = MapRemove(map, key)
  /\ calls' = CountTo(calls, MaxCallsHash)
  /\ UNCHANGED <<ndebug, status, pages, free_list, replacer, disk_manager,
                 writes, unpin_order, latch_, thread, latch>>

NextHash ==
  \/ \E key \in Keys, value \in HashValues : TableInsert(key, value)
  \/ \E key \in Keys : TableRemove(key)

SpecHash == InitHash /\ [][NextHash]_vars

\* the slots of the bucket address table that refer to bucket b
SlotsOf(h, b) ==
  {slot \in 0 .. (Len(h.bucketAddressTable) - 1) :
     h.bucketAddressTable[slot + 1] = b}

\* the buckets the bucket address table refers to
Referenced(h) ==
  {h.bucketAddressTable[slot] : slot \in 1 .. Len(h.bucketAddressTable)}

\* the places (bucket, index) at which the table holds the key
EntriesOf(h, key) ==
  {e \in UNION {{<<b, i>> : i \in 1 .. Len(h.buckets[b].keys)} :
                  b \in 1 .. Len(h.buckets)} :
     h.buckets[e[1]].keys[e[2]] = key}

\* global depth, bucket address table, number of buckets, local depths
Geometry(h) ==
  [globalDepth |-> GetGlobalDepth(h),
   bucketAddressTable |-> h.bucketAddressTable,
   numBuckets |-> GetNumBuckets(h),
   localDepth |-> [b \in 1 .. Len(h.buckets) |-> h.buckets[b].localDepth]]

\* C24: after any sequence of Insert and Remove calls Find(k) returns the
\* last value inserted for k when k was inserted and not removed since, and
\* finds nothing otherwise.
C24_FindAgrees ==
  Running =>
    \A key \in Keys :
      LET f == HashFind(page_table, key)
      IN  IF key \in DOMAIN map
          THEN f.found /\ f.value = map[key]
          ELSE ~f.found

\* C25: the bucket address table has 2^globalDepth slots and every bucket
\* of local depth d is referred to by exactly the slots whose low d bits
\* equal one tag.
C25_DirectoryInvariant ==
  Running =>
    /\ Len(page_table.bucketAddressTable) = Pow2(page_table.globalDepth)
    /\ \A b \in 1 .. Len(page_table.buckets) :
         LET d == page_table.buckets[b].localDepth
         IN  \E tag \in 0 .. (Pow2(d) - 1) :
               SlotsOf(page_table, b) =
                 {slot \in 0 .. (Len(page_table.bucketAddressTable) - 1) :
                    GET_LAST_N_BITS(slot, d) = tag}

\* C26: an Insert(k, v2) that follows an Insert(k, v1) leaves one entry for
\* k, Find(k) returns v2, and the number of stored keys, the global depth,
\* the bucket address table, the local depths and the number of buckets are
\* as before it.
C26_Overwrite ==
  [][(/\ Running /\ ret.op = "Insert" /\ ret.res = "void"
      /\ ret'.op = "Insert" /\ ret'.pid = ret.pid) =>
       /\ ret'.res = "void"
       /\ Cardinality(EntriesOf(page_table', ret'.pid)) = 1
       /\ HashFind(page_table', ret'.pid) = [found |-> TRUE, value |-> ret'.page]
       /\ TableCount(page_table') = TableCount(page_table)
       /\ Geometry(page_table') = Geometry(page_table)]_vars

\* C27: Remove(k) returns true exactly when k is stored; afterwards Find(k)
\* finds nothing, Find of every other key is as before, and the global
\* depth, the bucket address table, the local depths and the number of
\* buckets are as before.
C27_Remove ==
  [][(Running /\ ret'.op = "Remove") =>
       /\ (ret'.res = "true") <=> (ret'.pid \in HashKeys(page_table))
       /\ ~HashFind(page_table', ret'.pid).found
       /\ \A key \in Keys \ {ret'.pid} :
            HashFind(page_table', key) = HashFind(page_table, key)
       /\ Geometry(page_table') = Geometry(page_table)]_vars

\* C28: every bucket holds at most bucketSize entries, its keys are
\* pairwise distinct, keys and values have the same length, and its local
\* depth lies between 0 and the global depth.
C28_BucketInvariant ==
  \A b \in 1 .. Len(page_table.buckets) :
    LET bucket == page_table.buckets[b]
    IN  /\ Len(bucket.keys) <= page_table.bucketSize
        /\ \A i, k \in 1 .. Len(bucket.keys) :
             bucket.keys[i] = bucket.keys[k] => i = k
        /\ Len(bucket.keys) = Len(bucket.values)
        /\ 0 <= bucket.localDepth
        /\ bucket.localDepth <= page_table.globalDepth

\* an Insert has split buckets of a table of bucket size 2: one bucket is
\* full and one has a local depth below the global depth
C28_Witness ==
  /\ ret.op = "Insert" /\ ret.res = "void"
  /\ page_table.bucketSize = 2
  /\ Len(page_table.buckets) >= 3
  /\ \E b \in 1 .. Len(page_table.buckets) :
       Len(page_table.buckets[b].keys) = 2
  /\ \E b \in 1 .. Len(page_table.buckets) :
       page_table.buckets[b].localDepth < page_table.globalDepth

\* C29: GetNumBuckets() is the number of distinct buckets the bucket
\* address table refers to (1 for a new table).
C29_NumBuckets ==
  Running =>
    GetNumBuckets(page_table) = Cardinality(Referenced(page_table))

\* C30: with bucket size 2, after the three calls Insert 6, 10, 14 on a new
\* table the global depth is 3, the number of buckets is 4 (four buckets are
\* referred to, the empty ones included), the local depth is 3 at slots 2
\* and 6, 2 at slots 0 and 4, and 1 at slots 1, 3, 5, 7.
C30_RepeatedSplit ==
  (/\ page_table.bucketSize = 2
   /\ calls = 3
   /\ DOMAIN map = {6, 10, 14}) =>
    /\ GetGlobalDepth(page_table) = 3
    /\ GetNumBuckets(page_table) = 4
    /\ Cardinality(Referenced(page_table)) = 4
    /\ \A slot \in {2, 6} : GetLocalDepth(page_table, slot) = 3
    /\ \A slot \in {0, 4} : GetLocalDepth(page_table, slot) = 2
    /\ \A slot \in {1, 3, 5, 7} : GetLocalDepth(page_table, slot) = 1

\* what Insert 6, 10, 14 leaves in a new table of bucket size 2: the depths
\* of C30, four buckets referred to, and GetNumBuckets() = 5
C30_DepthsAndFiveBuckets ==
  (/\ page_table.bucketSize = 2
   /\ calls = 3
   /\ DOMAIN map = {6, 10, 14}) =>
    /\ GetGlobalDepth(page_table) = 3
    /\ GetNumBuckets(page_table) = 5
    /\ Cardinality(Referenced(page_table)) = 4
    /\ \A slot \in {2, 6} : GetLocalDepth(page_table, slot) = 3
    /\ \A slot \in {0, 4} : GetLocalDepth(page_table, slot) = 2
    /\ \A slot \in {1, 3, 5, 7} : GetLocalDepth(page_table, slot) = 1

\* GetNumBuckets() is one more than the number of buckets created
C29_OneTooMany ==
  GetNumBuckets(page_table) = Len(page_table.buckets) + 1

\* ============================================== keys in increasing order
\* A table of bucket size 1 .. MaxBucketSize receives Insert(key, key) for
\* keys of 1 .. MaxSeqKey in increasing order, any of them left out.
SeqKeys == 1 .. MaxSeqKey

\* the key of the last Insert, 0 on a new table
LastKey == IF ret.op = "Insert" THEN ret.pid ELSE 0

SeqInsert(key) ==
  /\ key > LastKey
  /\ TableInsert(key, key)

NextSeq == \E key \in SeqKeys : SeqInsert(key)

SpecSeq == InitHash /\ [][NextSeq]_vars

\* C31: with bucket size 2, after Insert of the keys 1, 2, ..., 9 in order
\* into a new table, GetGlobalDepth() is 3 and GetLocalDepth of the slots 0,
\* 1, 2, 3, 5 is 2, 3, 2, 2, 3.
C31_SampleDepths ==
  (/\ page_table.bucketSize = 2
   /\ DOMAIN map = 1 .. 9
   /\ ret.op = "Insert" /\ ret.pid = 9) =>
    /\ Running
    /\ GetGlobalDepth(page_table) = 3
    /\ GetLocalDepth(page_table, 0) = 2
    /\ GetLocalDepth(page_table, 1) = 3
    /\ GetLocalDepth(page_table, 2) = 2
    /\ GetLocalDepth(page_table, 3) = 2
    /\ GetLocalDepth(page_table, 5) = 3

\* the nine Inserts have been made on a table of bucket size 2 and every
\* key is found with its value
C31_Witness ==
  /\ page_table.bucketSize = 2
  /\ DOMAIN map = 1 .. 9
  /\ ret.op = "Insert" /\ ret.pid = 9
  /\ calls = MaxCallsHash
  /\ \A key \in 1 .. 9 :
       HashFind(page_table, key) = [found |-> TRUE, value |-> key]

\* ================================================== threads on one table
\* Several threads call Insert, Remove and Find on one ExtendibleHash, each
\* thread on keys of its own.  None of the three takes global_latch or a
\* bucket_latch (only GetSize locks), so the calls of different threads run
\* into one another: their unsynchronised accesses to the bucket address
\* table and to the buckets' vectors are data races.  Of the outcomes a race
\* can have the model takes these: a call reads the table when it starts
\* (HashEnter) and stores what it changes when it ends (HashLeave), and the
\* calls of other threads start and end in between.
ThreadKeys(t) == {key \in 0 .. MaxKeyMT : key % NumThreads = t - 1}

InsertCalls(t) == {<<"Insert", key>> : key \in ThreadKeys(t)}

HashCalls(t) ==
  {<<op, key>> : op \in {"Insert", "Remove", "Find"}, key \in ThreadKeys(t)}

\* the outcome of the call c on the table h0 as the thread read it:
\* Insert(key, key), Remove(key); Find has read the slot of its key
HashApply(h0, c) ==
  CASE c[1] = "Insert" ->
         [h |-> HashInsert(h0, c[2], c[2]), res |-> "void", value |-> c[2]]
    [] c[1] = "Remove" ->
         LET rm == HashRemove(h0, c[2])
         IN  [h |-> rm.h, res |-> Bool(rm.res), value |-> NoPage]
    [] c[1] = "Find" ->
         [h |-> h0, res |-> "void", value |-> GetBucket(h0, c[2])]

\* the table cur after a call that read h0 has stored its changes h1: the
\* buckets it changed, the buckets it created (placed after those created
\* meanwhile), the slots it pointed elsewhere or added, the depth it raised
StoreChanges(cur, h0, h1) ==
  LET shift == Len(cur.buckets) - Len(h0.buckets)
      old == Len(h0.buckets)
      created == Len(h1.buckets) - old
      Moved(b) == IF b > old THEN b + shift ELSE b
      n == Max(Len(cur.bucketAddressTable), Len(h1.bucketAddressTable))
  IN  [bucketSize |-> cur.bucketSize,
       size |-> cur.size,
       globalDepth |-> IF h1.globalDepth # h0.globalDepth
                       THEN h1.globalDepth ELSE cur.globalDepth,
       numBuckets |-> cur.numBuckets + (h1.numBuckets - h0.numBuckets),
       bucketAddressTable |->
         [slot \in 1 .. n |->
            IF slot > Len(cur.bucketAddressTable)
            THEN Moved(h1.bucketAddressTable[slot])
            ELSE IF slot > Len(h1.bucketAddressTable)
            THEN cur.bucketAddressTable[slot]
            ELSE IF \/ slot > Len(h0.bucketAddressTable)
                    \/ h1.bucketAddressTable[slot] # h0.bucketAddressTable[slot]
            THEN Moved(h1.bucketAddressTable[slot])
            ELSE cur.bucketAddressTable[slot]],
       buckets |->
         [b \in 1 .. (Len(cur.buckets) + created) |->
            IF b > Len(cur.buckets) THEN h1.buckets[b - shift]
            ELSE IF b <= old /\ h1.buckets[b] # h0.buckets[b]
            THEN h1.buckets[b]
            ELSE cur.buckets[b]]]

\* Bucket lookup of Find in the bucket it has taken from the slot
BucketFind(bucket, key) ==
  LET i == IndexOf(bucket.keys, key)
  IN  IF i = 0 THEN [found |-> FALSE, value |-> NoPage]
      ELSE [found |-> TRUE, value |-> bucket.values[i]]

HashEnter(t, c) ==
  /\ status = "running"
  /\ thread[t] = Idle
  /\ calls + Cardinality(InCall) < MaxCallsMT
  /\ ~(c[1] = "Insert" /\ Unending(page_table, c[2]))
  /\ thread' = [thread EXCEPT
                  ![t] = [op |-> c[1], call |-> c, h0 |-> page_table,
                          r |-> HashApply(page_table, c)]]
  /\ UNCHANGED <<ndebug, status, pages, free_list, replacer, page_table,
                 disk_manager, ret, writes, calls, unpin_order, latch_,
                 latch, map>>

HashLeave(t) ==
  /\ status = "running"
  /\ thread[t] # Idle
  /\ LET c == thread[t].call
         r == thread[t].r
     IN  IF c[1] = "Find"
         THEN LET f == BucketFind(page_table.buckets[r.value], c[2])
              IN  /\ ret' = Call("Find", c[2], Bool(f.found), f.value, "none")
                  /\ UNCHANGED <<page_table, map>>
         ELSE /\ page_table' = StoreChanges(page_table, thread[t].h0, r.h)
              /\ ret' = Call(c[1], c[2], r.res, r.value, "none")
              /\ map' = IF c[1] = "Insert" THEN MapInsert(map, c[2], c[2])
                        ELSE MapRemove(map, c[2])
  /\ calls' = calls + 1
  /\ thread' = [thread EXCEPT ![t] = Idle]
  /\ UNCHANGED <<ndebug, status, pages, free_list, replacer, disk_manager,
                 writes, unpin_order, latch_, latch>>

\* threads that only insert
NextHashInsertMT ==
  \/ \E t \in Threads : \E c \in InsertCalls(t) : HashEnter(t, c)
  \/ \E t \in Threads : HashLeave(t)

SpecHashInsertMT == InitHash /\ [][NextHashInsertMT]_vars

\* threads that insert, remove and find
NextHashMT ==
  \/ \E t \in Threads : \E c \in HashCalls(t) : HashEnter(t, c)
  \/ \E t \in Threads : HashLeave(t)

SpecHashMT == InitHash /\ [][NextHashMT]_vars

\* C32: when threads insert distinct keys into one table, then once all of
\* them have finished every inserted key is found with its value.
C32_ConcurrentInsert ==
  (Running /\ InCall = {}) =>
    \A key \in DOMAIN map :
      HashFind(page_table, key) = [found |-> TRUE, value |-> map[key]]

\* C33: while other threads insert and remove other keys, a Find(k) returns
\* the value of k when k is stored (its thread has inserted it and not
\* removed it) and nothing when it is not; a Remove(k) returns true exactly
\* when k is stored, so a second Remove(k) by the same thread returns false.
C33_MixedCalls ==
  [][\A t \in Threads :
       (thread[t] # Idle /\ thread'[t] = Idle) =>
          LET key == thread[t].call[2]
          IN  /\ thread[t].op = "Find" =>
                   IF key \in DOMAIN map
                   THEN ret'.res = "true" /\ ret'.page = map[key]
                   ELSE ret'.res = "false"
              /\ thread[t].op = "Remove" =>
                   (ret'.res = "true" <=> key \in DOMAIN map)]_vars

\* ============================================= keys with colliding hashes
\* Keys whose hashes agree in every bit the table can tell apart:
\* LAST_N_BITS_MASK and LAST_N_TH_BIT_MASK have 32 entries, KeyBits here.
CollideKeys == {1 + n * Pow2(KeyBits) : n \in 0 .. MaxBucketSize} \cup {2}

NextCollide ==
  \/ \E key \in CollideKeys, value \in HashValues : TableInsert(key, value)
  \/ \E key \in CollideKeys : TableRemove(key)

SpecCollide == InitHash /\ [][NextCollide]_vars

\* C34: every Insert ends: it returns with the key stored, or, when more
\* keys than a bucket holds have the same hash, it stops with a fatal error;
\* it neither splits for ever nor goes past the supported depth.
C34_InsertEnds ==
  ret.op = "Insert" =>
    \/ ret.res = "abort"
    \/ /\ ret.res = "void"
       /\ HashFind(page_table, ret.pid) = [found |-> TRUE, value |-> ret.page]

\* ------------------------------------------------------------ one split
\* the entries <<key, value>> of a bucket
BucketEntries(bucket) ==
  {<<bucket.keys[i], bucket.values[i]>> : i \in 1 .. Len(bucket.keys)}

\* the keys whose Insert would split the bucket they land in
Splitting ==
  {key \in Keys : /\ key \notin HashKeys(page_table)
                  /\ Full(page_table, page_table.buckets[GetBucket(page_table, key)])}

\* the entries of bucket J whose hash has bit d + 1 set, d its local depth
BitSet(bucket) ==
  {e \in BucketEntries(bucket) :
     GET_LAST_N_TH_BIT(HashKey(e[1]), bucket.localDepth + 1) # 0}

\* C35: one split of a full bucket J of local depth d moves to the new
\* bucket Z exactly the entries of J with bit d + 1 of the hash set, each key
\* with its value, keeps the others in J, and changes no other bucket.
C35_SplitEntries ==
  Running =>
    \A key \in Splitting :
      LET s == Split(page_table, key)
          J == page_table.buckets[s.j]
      IN  /\ Len(s.h.buckets) = Len(page_table.buckets) + 1
          /\ s.z = Len(s.h.buckets)
          /\ BucketEntries(s.h.buckets[s.z]) = BitSet(J)
          /\ BucketEntries(s.h.buckets[s.j]) = BucketEntries(J) \ BitSet(J)
          /\ Len(s.h.buckets[s.z].keys) = Cardinality(BitSet(J))
          /\ Len(s.h.buckets[s.j].keys) = Len(J.keys) - Cardinality(BitSet(J))
          /\ Len(s.h.buckets[s.z].values) = Len(s.h.buckets[s.z].keys)
          /\ Len(s.h.buckets[s.j].values) = Len(s.h.buckets[s.j].keys)
          /\ \A b \in 1 .. Len(page_table.buckets) :
                b # s.j => s.h.buckets[b] = page_table.buckets[b]

\* after two Inserts with different values the next Insert splits the full
\* bucket of two entries, one for each side
C35_Witness ==
  /\ Running
  /\ ret.op = "Insert"
  /\ \E key \in Splitting :
       LET s == Split(page_table, key)
           J == page_table.buckets[s.j]
       IN  /\ Len(J.keys) = 2
           /\ J.values[1] # J.values[2]
           /\ Len(s.h.buckets[s.z].keys) = 1
           /\ Len(s.h.buckets[s.j].keys) = 1
           /\ HashInsert(page_table, key, 0) = 
                [s.h EXCEPT
                   !.buckets[IF s.to_bucket_z THEN s.z ELSE s.j].keys =
                      Append(@, key),
                   !.buckets[IF s.to_bucket_z THEN s.z ELSE s.j].values =
                      Append(@, 0)]

\* ------------------------------------------------ replacer: list and map
\* C36: between calls lru_list and ht hold the same elements, lru_list has
\* no element twice (its length is the size of ht), and the entry of ht for
\* an element refers to the place of that element in lru_list.
C36_ListAndMap ==
  LET lru_list == replacer.lru_list
      ht == replacer.ht
  IN  /\ {lru_list[i] : i \in 1 .. Len(lru_list)} = DOMAIN ht
      /\ Len(lru_list) = Cardinality(DOMAIN ht)
      /\ \A i, j \in 1 .. Len(lru_list) : lru_list[i] = lru_list[j] => i = j
      /\ \A x \in DOMAIN ht :
            /\ IndexOf(lru_list, ht[x]) > 0
            /\ lru_list[IndexOf(lru_list, ht[x])] = x

\* a Victim has just taken the last of at least three elements, and the
\* two or more it left are in an order that is not the order of their values
C36_Witness ==
  /\ Running
  /\ ret.op = "Victim"
  /\ ret.res = "true"
  /\ Len(replacer.lru_list) >= 2
  /\ \E i \in 1 .. (Len(replacer.lru_list) - 1) :
       replacer.lru_list[i] < replacer.lru_list[i + 1]
  /\ ret.pid < replacer.lru_list[Len(replacer.lru_list)]

\* ------------------------------------------------------- free-list frames
\* C37: every frame of the free list is empty: page id INVALID, pin count
\* 0, not dirty, bytes zero, no entry of the page table leads to it and it
\* is not in the replacer; initially and after any calls, DeletePage too.
C37_FreeListEmpty ==
  \A i \in 1 .. Len(free_list) :
    LET F == free_list[i]
    IN  /\ pages[F].page_id_ = INVALID_PAGE_ID
        /\ pages[F].pin_count_ = 0
        /\ ~pages[F].is_dirty_
        /\ pages[F].data_ = 0
        /\ \A e \in TableEntries : e[2] # F
        /\ F \notin LRUMembers(replacer)
        /\ \A j \in 1 .. Len(free_list) : free_list[j] = F => j = i

\* all frames are back in the free list, in another order than at
\* construction, after a page's bytes were changed: DeletePage returned them
C37_Witness ==
  /\ Running
  /\ ret.op = "DeletePage" /\ ret.res = "true"
  /\ Len(free_list) = PoolSize
  /\ free_list # NewPool(DiskManager).free_list
  /\ writes > 0

\* ------------------------------------------------- assertions on a victim
\* C38: the assertions on the frame to reuse hold whenever a call reaches
\* them: the frame Victim has just taken from the replacer is not dirty, has
\* pin count 0 and page id INVALID (GetVictimPage), and so has the frame
\* GetVictimPage hands to FetchPage and NewPage.
C38_VictimAssertions ==
  (Running /\ (free_list # <<>> \/ LRUSize(replacer) # 0)) =>
    LET taken == IF free_list # <<>> THEN Head(free_list)
                 ELSE LRUVictim(replacer).value
        handed == GetVictimPage(Pool, TRUE)
    IN  /\ VictimAsserts(pages[taken])
        /\ handed.page = taken
        /\ VictimAsserts(handed.b.pages[handed.page])

\* ------------------------------------------------------------ IsAllPinned
\* C39: IsAllPinned() is true exactly when every frame has a pin count above
\* 0, so assert(IsAllPinned()) holds whenever GetVictimPage finds the free
\* list and the replacer empty and returns nullptr.
C39_IsAllPinned ==
  (Running /\ free_list = <<>> /\ LRUSize(replacer) = 0) =>
    /\ \A f \in Frames : pages[f].pin_count_ > 0
    /\ IsAllPinned(Pool)
    /\ ~GetVictimPage(Pool, FALSE).abort

\* ======================================================= the pool's latch
\* BufferPoolManager::FindInBuffer holds latch_ shared for its body
FindInBuffer(page_id) ==
  /\ status = "running"
  /\ Count
  /\ LET f == HashFind(page_table, page_id)
     IN  ret' = Call("FindInBuffer", page_id, Bool(f.found), f.value, "none")
  /\ UNCHANGED <<ndebug, status, pages, free_list, replacer, page_table,
                 disk_manager, writes, unpin_order, latch_, thread, latch,
                 map>>

\* BufferPoolManager::GetPagePinCount.  It holds latch_ shared and, in the
\* build with assertions, calls FindInBuffer, which locks latch_ shared
\* again from the same thread: undefined behaviour for std::shared_mutex; the
\* second lock_shared is granted, or waits for ever behind a writer's turn.
\* On a page that is not in the pool the assertion on page fails, and
\* without assertions the null pointer is dereferenced.
GetPagePinCount(page_id) ==
  /\ status = "running"
  /\ Count
  /\ LET f == HashFind(page_table, page_id)
     IN  IF ~f.found
         THEN /\ status' = "aborted"
              /\ ret' = Call("GetPagePinCount", page_id,
                             IF ndebug THEN "undefined" ELSE "abort",
                             NoPage, "none")
         ELSE \E relock \in IF ndebug THEN {"count"} ELSE {"count", "deadlock"} :
                /\ status' = IF relock = "deadlock" THEN "deadlocked"
                             ELSE "running"
                /\ ret' = Call("GetPagePinCount", page_id, relock, f.value,
                               "none")
  /\ UNCHANGED <<ndebug, pages, free_list, replacer, page_table,
                 disk_manager, writes, unpin_order, latch_, thread, latch,
                 map>>

NextLatch ==
  \/ Next
  \/ \E p \in PageIds : FindInBuffer(p)
  \/ \E p \in PageIds : GetPagePinCount(p)

SpecLatch == Init /\ [][NextLatch]_vars

\* the acquisitions of latch_ the call op(page_id) makes on the pool b, in
\* their order.  Each is a lock_guard or shared_lock that lives to the end
\* of its function, so every one after the first is made while the thread
\* holds latch_.
Acquires(op, nd, b, page_id) ==
  CASE op \in {"NewPage", "FetchPage", "UnpinPage", "FlushPage", "DeletePage"} ->
         <<"exclusive">>
    [] op \in {"FlushAllPages", "~BufferPoolManager"} ->
         <<"exclusive">> \o
           (IF PoolSize > 0 /\ (nd \/ b.pages[0].page_id_ # INVALID_PAGE_ID)
            THEN <<"exclusive">> ELSE <<>>)
    [] op = "FindInBuffer" -> <<"shared">>
    [] op = "GetPagePinCount" ->
         <<"shared">> \o
           (IF ~nd /\ HashFind(b.page_table, page_id).found
            THEN <<"shared">> ELSE <<>>)
    [] OTHER -> <<>>

\* C40: no call acquires latch_ while its thread holds it, neither
\* exclusive after exclusive (FlushAllPages calling FlushPage) nor shared
\* after shared (GetPagePinCount calling FindInBuffer), so no call blocks
\* on its own latch.
C40_LatchDiscipline ==
  [][/\ Len(Acquires(ret'.op, ndebug, Pool, ret'.pid)) <= 1
     /\ status' # "deadlocked"]_vars

====
